---- MODULE Spec2Model ----
(***************************************************************************)
(* A model of rust_src/src/hashtable.rs: the LispHashTable behind the      *)
(* map-* primitives (make_hash_map, map_put, map_get, map_rm, map_clear,   *)
(* map_count, map_copy, map_test), its GC mark hook and its pure copy.     *)
(***************************************************************************)
EXTENDS Integers, Sequences, FiniteSets, TLC

(***************************************************************************)
(* Bounds of the model.                                                    *)
(***************************************************************************)
\* how many heap objects (tables and copies) one run allocates
MaxTables == 2
\* how many key/value option pairs an argument list of make_hash_map holds
MaxPairs == 2

(***************************************************************************)
(* Lisp objects.  An object is its type, its content (name, num/den) and   *)
(* its identity (id, pure): symbols and fixnums are immediate (id 0),      *)
(* floats, strings and function objects are heap objects, so two of them   *)
(* can have the same content and differ in identity.                       *)
(***************************************************************************)
Obj(t, nm, n, d, i) ==
    [type |-> t, name |-> nm, num |-> n, den |-> d, id |-> i, pure |-> FALSE]
Sym(nm) == Obj("symbol", nm, 0, 1, 0)
Fixnum(n) == Obj("int", "", n, 1, 0)
Float(n, d, i) == Obj("float", "", n, d, i)
Str(s, i) == Obj("string", s, 0, 1, i)
Fn(nm, i) == Obj("function", nm, 0, 1, i)

Qnil == Sym("nil")
Qt == Sym("t")
Qeq == Sym("eq")
Qeql == Sym("eql")
Qequal == Sym("equal")
QCtest == Sym(":test")
QCsize == Sym(":size")
QCweakness == Sym(":weakness")
QCpurecopy == Sym(":purecopy")
Qhash_table_test == Sym("hash-table-test")
Qkey == Sym("key")
Qvalue == Sym("value")
Qkey_and_value == Sym("key-and-value")
Qkey_or_value == Sym("key-or-value")

is_not_nil(o) == o # Qnil
is_float(o) == o.type = "float"

\* LispObject::eq: the same object
LispEq(a, b) == a = b
\* LispObject::eql: eq, or two floats with the same numeric content
LispEql(a, b) ==
    \/ a = b
    \/ is_float(a) /\ is_float(b) /\ a.num = b.num /\ a.den = b.den
\* LispObject::equal: eql, or two strings with the same content, or two
\* function objects with the same body
LispEqual(a, b) ==
    \/ LispEql(a, b)
    \/ a.type = b.type /\ a.type \in {"string", "function"} /\ a.name = b.name

\* sxhash: a content hash, the same for equal objects; all symbols collide
sxhash(o) ==
    CASE o.type = "string" -> (IF o.name = "a" THEN 1 ELSE 2)
      [] o.type = "float" -> 10 + o.num
      [] o.type = "int" -> 20 + o.num
      [] o.type = "function" -> 40
      [] OTHER -> 30

\* LispObject::purecopy: immediate objects and objects already pure are
\* returned as they are; a heap object gets a twin in pure space
purecopy(o) ==
    IF o.id = 0 \/ o.pure THEN o ELSE [o EXCEPT !.pure = TRUE]

(***************************************************************************)
(* The user-defined tests of this model.  The symbol property              *)
(* hash-table-test of a test name holds its definition; a definition is a  *)
(* Lisp value: an atom, or the list of its elements.                       *)
(***************************************************************************)
cmp_equal == Fn("cmp-equal", 1)
hash_equal == Fn("hash-equal", 2)
hash_ident == Fn("hash-ident", 3)
Atom(o) == [atom |-> TRUE, elems |-> <<o>>]
List(s) == [atom |-> FALSE, elems |-> s]
is_cons(p) == ~p.atom /\ Len(p.elems) > 0
car(p) == Head(p.elems)
cdr(p) == IF Len(p.elems) > 1 THEN List(Tail(p.elems)) ELSE Atom(Qnil)

\* lists::get(symbol, Qhash_table_test)
HashTableTestProp(sym) ==
    CASE sym.name = "my-equal" -> List(<<cmp_equal, hash_equal>>)
      [] sym.name = "loose" -> List(<<cmp_equal, hash_ident>>)
      [] sym.name = "three" -> List(<<cmp_equal, hash_equal, Qt>>)
      [] sym.name = "one" -> List(<<cmp_equal>>)
      [] sym.name = "atom" -> Atom(cmp_equal)
      [] OTHER -> Atom(Qnil)

\* call!(f, a, b) for the comparators and call!(f, a) for the hash functions
Call2(f, a, b) == IF f.name = "cmp-equal" /\ LispEqual(a, b) THEN Qt ELSE Qnil
Call1(f, a) ==
    IF f.name = "hash-equal"
    THEN Fixnum(sxhash(a))
    ELSE Fixnum(100 * sxhash(a) + 2 * a.id + (IF a.pure THEN 1 ELSE 0))

(***************************************************************************)
(* enum HashFunction and struct HashableLispObject                         *)
(***************************************************************************)
Builtin(tag) == [tag |-> tag, name |-> Qnil, cmp |-> Qnil, hash |-> Qnil]
HashFunction_Eq == Builtin("Eq")
HashFunction_Eql == Builtin("Eql")
HashFunction_Equal == Builtin("Equal")
UserFunc(n, c, h) == [tag |-> "UserFunc", name |-> n, cmp |-> c, hash |-> h]

with_hashfunc_and_object(o, f) == [object |-> o, func |-> f]

\* what impl Hash writes to the hasher: the object itself, or a u64
RawHash(o) == [kind |-> "raw", o |-> o, n |-> 0]
U64Hash(n) == [kind |-> "u64", o |-> Qnil, n |-> n]

HashableHash(self) ==
    CASE self.func.tag = "Eq" -> RawHash(self.object)
      [] self.func.tag = "Eql" ->
            IF is_float(self.object)
            THEN U64Hash(sxhash(self.object))
            ELSE RawHash(self.object)
      [] self.func.tag = "Equal" -> U64Hash(sxhash(self.object))
      [] OTHER -> RawHash(Call1(self.func.hash, self.object))

\* a plausible slip: the Equal arm compares as eql does
HashableEqEqualAsEql(self, other) ==
    CASE self.func.tag = "Eq" -> LispEq(self.object, other.object)
      [] self.func.tag = "Eql" -> LispEql(self.object, other.object)
      [] self.func.tag = "Equal" -> LispEql(self.object, other.object)
      [] OTHER -> is_not_nil(Call2(self.func.cmp, self.object, other.object))

HashableEq(self, other) ==
    CASE self.func.tag = "Eq" -> LispEq(self.object, other.object)
      [] self.func.tag = "Eql" -> LispEql(self.object, other.object)
      [] self.func.tag = "Equal" -> LispEqual(self.object, other.object)
      [] OTHER -> is_not_nil(Call2(self.func.cmp, self.object, other.object))

(***************************************************************************)
(* FnvHashMap<HashableLispObject, HashableLispObject>: a set of entries.   *)
(* A probe finds the stored entry whose key has the hash of the probed key *)
(* and which the probed key's eq accepts.                                  *)
(***************************************************************************)
Entry(k, v) == [key |-> k, value |-> v]

Found(m, key) ==
    {e \in m : HashableHash(e.key) = HashableHash(key) /\ HashableEq(key, e.key)}

\* HashMap::insert: an occupied entry keeps its key and takes the new value
insert(m, key, value) ==
    IF Found(m, key) = {}
    THEN m \cup {Entry(key, value)}
    ELSE LET e == CHOOSE x \in Found(m, key) : TRUE
         IN (m \ {e}) \cup {Entry(e.key, value)}

\* HashMap::get
get(m, key) ==
    IF Found(m, key) = {}
    THEN <<>>
    ELSE <<(CHOOSE x \in Found(m, key) : TRUE).value>>

\* HashMap::remove
remove(m, key) ==
    IF Found(m, key) = {}
    THEN m
    ELSE m \ {CHOOSE x \in Found(m, key) : TRUE}

\* HashMap::reserve: room for `additional` more entries
reserve(cap, len, additional) ==
    IF cap >= len + additional THEN cap ELSE len + additional

(***************************************************************************)
(* struct LispHashTable, and the objects a map handle can point to: a      *)
(* LispHashTable on the heap ("table"), a LispHashTable in pure space      *)
(* ("pure"), or a boxed ExternalPtr ("ptrbox").                            *)
(***************************************************************************)
DefaultCapacity == 65

HeapObject(kind, weak, is_pure, func, map, cap, ptr) ==
    [kind |-> kind, weak |-> weak, is_pure |-> is_pure, func |-> func,
     map |-> map, cap |-> cap, ptr |-> ptr]

FreeSlot == HeapObject("free", Qnil, FALSE, HashFunction_Eq, {}, 0, 0)

\* a plausible slip: a fresh table that is born pure
with_capacity_pure(cap) ==
    HeapObject("table", Qnil, TRUE, HashFunction_Eq, {}, cap, 0)

with_capacity(cap) ==
    HeapObject("table", Qnil, FALSE, HashFunction_Eq, {}, cap, 0)

new == with_capacity(DefaultCapacity)

(***************************************************************************)
(* make_hash_map(args): the option loop, one key/value pair per round.     *)
(* The result is the error the call ended with ("none": the table is       *)
(* returned) and the table as the loop left it.                            *)
(***************************************************************************)
Result(err, ptr) == [err |-> err, table |-> ptr]

\* the :test arm
set_test_swapped(ptr, value) ==
    IF value = Qeq THEN Result("none", [ptr EXCEPT !.func = HashFunction_Eq])
    ELSE IF value = Qeql THEN Result("none", [ptr EXCEPT !.func = HashFunction_Eql])
    ELSE IF value = Qequal THEN Result("none", [ptr EXCEPT !.func = HashFunction_Equal])
    ELSE LET prop == HashTableTestProp(value)
         IN IF ~is_cons(prop) \/ ~is_cons(cdr(prop))
            THEN Result("Invalid hash table test", ptr)
            ELSE Result("none",
                        [ptr EXCEPT !.func = UserFunc(value, car(cdr(prop)), car(prop))])

set_test(ptr, value) ==
    IF value = Qeq THEN Result("none", [ptr EXCEPT !.func = HashFunction_Eq])
    ELSE IF value = Qeql THEN Result("none", [ptr EXCEPT !.func = HashFunction_Eql])
    ELSE IF value = Qequal THEN Result("none", [ptr EXCEPT !.func = HashFunction_Equal])
    ELSE LET prop == HashTableTestProp(value)
         IN IF ~is_cons(prop) \/ ~is_cons(cdr(prop))
            THEN Result("Invalid hash table test", ptr)
            ELSE Result("none",
                        [ptr EXCEPT !.func = UserFunc(value, car(prop), car(cdr(prop)))])

\* the :size arm
set_size(ptr, value) ==
    IF value.type # "int"
    THEN Result("wrong-type-argument", ptr)
    ELSE Result("none",
                [ptr EXCEPT !.cap = reserve(ptr.cap, Cardinality(ptr.map), value.num)])

\* the :weakness arm
set_weakness(ptr, value) ==
    Result("none", [ptr EXCEPT !.weak = IF value = Qt THEN Qkey_and_value ELSE value])

\* one round of the loop for the pair (key, value)
set_option(ptr, key, value) ==
    IF key = QCtest THEN set_test(ptr, value)
    ELSE IF key = QCpurecopy THEN Result("none", [ptr EXCEPT !.is_pure = TRUE])
    ELSE IF key = QCsize THEN set_size(ptr, value)
    ELSE IF key = QCweakness THEN set_weakness(ptr, value)
    ELSE Result("none", ptr)

\* the loop from index i (0-based, as in the code; args[i] there is
\* args[i + 1] here)
RECURSIVE option_loop(_, _, _)
option_loop(args, i, ptr) ==
    IF ~(i < Len(args)) THEN Result("none", ptr)
    ELSE IF i + 1 > Len(args) THEN Result("Inproper args list", ptr)
    ELSE IF ~(i + 1 < Len(args)) THEN Result("index out of bounds", ptr)
    ELSE LET r == set_option(ptr, args[i + 1], args[i + 2])
         IN IF r.err # "none" THEN r ELSE option_loop(args, i + 2, r.table)

make_hash_map(args) == option_loop(args, 0, new)

(***************************************************************************)
(* The map-* primitives, as functions of the LispHashTable they are given. *)
(***************************************************************************)
\* a plausible slip: the wrapped key is stored as the value
map_put_key_as_value(tbl, k, v) ==
    [tbl EXCEPT !.map = insert(tbl.map,
                               with_hashfunc_and_object(k, tbl.func),
                               with_hashfunc_and_object(k, tbl.func))]

\* a plausible slip: an occupied entry is left alone and a second one added
map_put_no_overwrite(tbl, k, v) ==
    [tbl EXCEPT !.map = @ \cup {Entry(with_hashfunc_and_object(k, tbl.func),
                                      with_hashfunc_and_object(v, tbl.func))}]

\* map_put: the table afterwards (the call returns v)
map_put(tbl, k, v) ==
    [tbl EXCEPT !.map = insert(tbl.map,
                               with_hashfunc_and_object(k, tbl.func),
                               with_hashfunc_and_object(v, tbl.func))]

\* map_get: the stored object, or nil
map_get(tbl, k) ==
    LET hit == get(tbl.map, with_hashfunc_and_object(k, tbl.func))
    IN IF hit = <<>> THEN Qnil ELSE hit[1].object

\* a plausible slip: removing a key that is not there empties the table
map_rm_clears_on_miss(tbl, k) ==
    IF Found(tbl.map, with_hashfunc_and_object(k, tbl.func)) = {}
    THEN [tbl EXCEPT !.map = {}]
    ELSE [tbl EXCEPT !.map = remove(tbl.map, with_hashfunc_and_object(k, tbl.func))]

\* map_rm: the table afterwards (the call returns the map)
map_rm(tbl, k) ==
    [tbl EXCEPT !.map = remove(tbl.map, with_hashfunc_and_object(k, tbl.func))]

\* a plausible slip: the table is emptied by putting a new one in its place
map_clear_renews(tbl) == with_capacity(tbl.cap)

\* map_clear: the table afterwards
map_clear(tbl) == [tbl EXCEPT !.map = {}]

\* a variant that reports the reserved capacity instead of the entries
map_count_capacity(tbl) == Fixnum(tbl.cap)

\* map_count
map_count(tbl) == Fixnum(Cardinality(tbl.map))

\* a plausible slip: the comparator of a user-defined test is returned
map_test_comparator(tbl) ==
    CASE tbl.func.tag = "Eq" -> Qeq
      [] tbl.func.tag = "Eql" -> Qeql
      [] tbl.func.tag = "Equal" -> Qequal
      [] OTHER -> tbl.func.cmp

\* map_test
map_test(tbl) ==
    CASE tbl.func.tag = "Eq" -> Qeq
      [] tbl.func.tag = "Eql" -> Qeql
      [] tbl.func.tag = "Equal" -> Qequal
      [] OTHER -> tbl.func.name

\* map_rehash_size and map_rehash_threshold: the floats 0.5 and 0.8125
\* a plausible slip: the growth factor 1.5 of the C runtime is returned
map_rehash_size_grows(_map) == Float(3, 2, 0)

map_rehash_size(_map) == Float(1, 2, 0)
map_rehash_threshold(_map) == Float(13, 16, 0)

(***************************************************************************)
(* map_copy(map).  hashmap is an ExternalPtr<LispHashTable>, and an        *)
(* ExternalPtr is Copy (copy_hash_table passes `table` by value and goes   *)
(* on using it), hence Clone: hashmap.clone() finds ExternalPtr's own      *)
(* clone by auto-ref before it derefs to LispHashTable's.  What is boxed   *)
(* and returned is a copy of the pointer: a heap object of one word that   *)
(* holds the address of the source, not a LispHashTable.                   *)
(***************************************************************************)
map_copy(h) == HeapObject("ptrbox", Qnil, FALSE, HashFunction_Eq, {}, 0, h)

(***************************************************************************)
(* mark_hashtable(map): what one call marks, the table's own vector        *)
(* (mark_vectorlike) and the objects handed to mark_object.                *)
(***************************************************************************)
Marks(tables, objects) == [tables |-> tables, objects |-> objects]
NoMarks == Marks({}, {})

\* a plausible slip: the hash function of a user-defined test is forgotten
mark_hashtable_skips_hash(tbl, h) ==
    Marks({h},
          (IF tbl.func.tag = "UserFunc"
           THEN {tbl.func.name, tbl.func.cmp}
           ELSE {})
          \cup
          (IF is_not_nil(tbl.weak)
           THEN {e.key.object : e \in tbl.map} \cup {e.value.object : e \in tbl.map}
           ELSE {}))

mark_hashtable(tbl, h) ==
    Marks({h},
          (IF tbl.func.tag = "UserFunc"
           THEN {tbl.func.name, tbl.func.cmp, tbl.func.hash}
           ELSE {})
          \cup
          (IF is_not_nil(tbl.weak)
           THEN {e.key.object : e \in tbl.map} \cup {e.value.object : e \in tbl.map}
           ELSE {}))

(***************************************************************************)
(* pure_copy_hashtable(map): the table built in pure space.                *)
(***************************************************************************)
\* the func of the new table
pure_func(tbl) ==
    IF tbl.func.tag = "UserFunc"
    THEN UserFunc(purecopy(tbl.func.name), purecopy(tbl.func.cmp),
                  purecopy(tbl.func.hash))
    ELSE tbl.func

\* the loop over the source's entries: each key and value is pure-copied,
\* keeps the func it was wrapped with, and is inserted into the new map.
\* The map's iteration order is not fixed: every order is a possible run.
\* a plausible slip: the pair is inserted the wrong way round
RECURSIVE pure_insert_all_swapped(_, _)
pure_insert_all_swapped(todo, m) ==
    IF todo = {}
    THEN {m}
    ELSE UNION {
        LET purekey == [object |-> purecopy(e.key.object), func |-> e.key.func]
            purevalue == [object |-> purecopy(e.value.object), func |-> e.value.func]
        IN pure_insert_all_swapped(todo \ {e}, insert(m, purevalue, purekey))
        : e \in todo}

RECURSIVE pure_insert_all(_, _)
pure_insert_all(todo, m) ==
    IF todo = {}
    THEN {m}
    ELSE UNION {
        LET purekey == [object |-> purecopy(e.key.object), func |-> e.key.func]
            purevalue == [object |-> purecopy(e.value.object), func |-> e.value.func]
        IN pure_insert_all(todo \ {e}, insert(m, purekey, purevalue))
        : e \in todo}

\* the tables the call can return
pure_copy_hashtable(tbl) ==
    {HeapObject("pure", purecopy(Qnil), tbl.is_pure, pure_func(tbl), m,
                Cardinality(tbl.map), 0)
     : m \in pure_insert_all(tbl.map, {})}

(***************************************************************************)
(* Lisp_Hash_Table, the table of the C runtime that copy_hash_table works  *)
(* on: a heap object of kind "legacy".  The C runtime makes it             *)
(* (Fmake_hash_table) and fills it; here it is an eq table that is made    *)
(* with its entries.                                                       *)
(***************************************************************************)
make_hash_table(weak, keys) ==
    HeapObject("legacy", weak, FALSE, HashFunction_Eq,
               {Entry(with_hashfunc_and_object(k, HashFunction_Eq),
                      with_hashfunc_and_object(Fixnum(1), HashFunction_Eq)) : k \in keys},
               DefaultCapacity, 0)

\* copy_hash_table(htable): the heap and the next_weak links once `table`
\* is copied into the newly allocated `new_table`.  new_table.copy(table)
\* copies the whole struct, weak and next_weak included; Fcopy_sequence
\* gives the copy vectors of its own.
copy_hash_table(hp, nw, table, new_table) ==
    LET copied == [nw EXCEPT ![new_table] = nw[table]]
    IN [heap |-> [hp EXCEPT ![new_table] = hp[table]],
        next_weak |-> IF is_not_nil(hp[table].weak)
                      THEN [copied EXCEPT ![new_table] = nw[table],
                                          ![table] = new_table]
                      ELSE copied]

(***************************************************************************)
(* The collector, as far as tables go: the mark phase marks the roots and  *)
(* every table the mutator holds, then the sweep walks the chain of weak   *)
(* tables from weak_hash_tables and drops the entries that did not         *)
(* survive.                                                                *)
(***************************************************************************)
\* the collector's own marking of a Lisp_Hash_Table
mark_hash_table(tbl, h) ==
    Marks({h},
          IF is_not_nil(tbl.weak)
          THEN {}
          ELSE {e.key.object : e \in tbl.map} \cup {e.value.object : e \in tbl.map})

\* fixnums are not heap objects and pure space is never collected
survives_gc_p(o, objects) == o.type = "int" \/ o.pure \/ o \in objects

sweep_weak_table(tbl, objects) ==
    [tbl EXCEPT !.map =
        {e \in @ :
            CASE tbl.weak = Qkey -> survives_gc_p(e.key.object, objects)
              [] tbl.weak = Qvalue -> survives_gc_p(e.value.object, objects)
              [] tbl.weak = Qkey_or_value ->
                    \/ survives_gc_p(e.key.object, objects)
                    \/ survives_gc_p(e.value.object, objects)
              [] OTHER ->
                    /\ survives_gc_p(e.key.object, objects)
                    /\ survives_gc_p(e.value.object, objects)}]

\* the tables of the chain that starts at `head`
RECURSIVE WeakChain(_, _, _)
WeakChain(head, nw, n) ==
    IF head = 0 \/ n = 0 THEN {} ELSE {head} \cup WeakChain(nw[head], nw, n - 1)

(***************************************************************************)
(* The inputs of a run: the option list its make_hash_map calls are given  *)
(* and the keys its map_put, map_get and map_rm calls are given.           *)
(***************************************************************************)
my_equal == Sym("my-equal")
loose == Sym("loose")

str_a1 == Str("a", 11)
str_a2 == Str("a", 12)
flt_a1 == Float(1, 1, 13)
flt_a2 == Float(1, 1, 14)

KeySets == {{str_a1, str_a2}, {flt_a1, flt_a2}, {str_a1, flt_a1}}
Values == {Fixnum(1), Fixnum(2)}

\* the option lists of the runs that go on to use the table
TableArgs ==
    {<<>>,
     <<QCtest, Qeql, QCweakness, Qkey>>,
     <<QCtest, Qequal, QCsize, Fixnum(8)>>,
     <<QCpurecopy, Qt, QCtest, my_equal>>,
     <<QCtest, loose, QCweakness, Qt>>,
     <<QCtest, Sym("one")>>,
     <<QCsize>>}

\* every option list of up to MaxPairs pairs, with or without a last key
\* that has no value
OptionKeys == {QCtest, QCsize, QCweakness, QCpurecopy, Sym(":rehash-size")}
OptionPairs ==
    ({QCtest} \X {Qeq, Qeql, Qequal, my_equal, loose, Sym("three"), Sym("one"),
                  Sym("atom"), Sym("no-such-test")})
    \cup ({QCsize} \X {Fixnum(0), Fixnum(100), Qt})
    \cup ({QCweakness} \X {Qnil, Qt, Qkey, Qvalue, Qkey_and_value, Qkey_or_value,
                           Fixnum(1)})
    \cup ({QCpurecopy} \X {Qnil, Qt})
    \cup ({Sym(":rehash-size")} \X {Fixnum(1)})

RECURSIVE PairLists(_)
PairLists(n) ==
    IF n = 0
    THEN {<<>>}
    ELSE PairLists(n - 1)
         \cup {l \o <<p[1], p[2]>> : l \in PairLists(n - 1), p \in OptionPairs}

ArgLists ==
    PairLists(MaxPairs) \cup {l \o <<k>> : l \in PairLists(MaxPairs), k \in OptionKeys}

(***************************************************************************)
(* The state: the heap of objects map handles point to, the last call and  *)
(* what it returned, what the last mark_hashtable call marked, whether the *)
(* process is still running, the tables the dump has pure-copied, and the  *)
(* chain of weak tables: its head weak_hash_tables and the next_weak of    *)
(* each table (0: the null pointer).                                       *)
(***************************************************************************)
VARIABLES heap, last, marked, status, dumped, input, next_weak, weak_hash_tables

vars == <<heap, last, marked, status, dumped, input, next_weak, weak_hash_tables>>

Handles == 1..MaxTables

Call(op, h, k, v, ret, rh, err) ==
    [op |-> op, h |-> h, k |-> k, v |-> v, ret |-> ret, rh |-> rh, err |-> err]

NoCall == Call("none", 0, Qnil, Qnil, Qnil, 0, "none")

IsTable(h) == h \in Handles /\ heap[h].kind \in {"table", "pure"}
\* pure space is written once, by pure_copy_hashtable: no call mutates a
\* table that lies in it
IsHeapTable(h) == h \in Handles /\ heap[h].kind = "table"
Free == {h \in Handles : heap[h].kind = "free"}
NextFree == CHOOSE h \in Free : \A g \in Free : h <= g

InitHeap ==
    /\ heap = [h \in Handles |-> FreeSlot]
    /\ last = NoCall
    /\ marked = NoMarks
    /\ status = "running"
    /\ dumped = {}
    /\ next_weak = [h \in Handles |-> 0]
    /\ weak_hash_tables = 0

Init ==
    /\ InitHeap
    /\ input \in [args : TableArgs, keys : KeySets]

InitConfigure ==
    /\ InitHeap
    /\ input \in [args : ArgLists, keys : {{str_a1, str_a2}}]

(***************************************************************************)
(* The calls.                                                              *)
(***************************************************************************)
\* make_hash_map(input.args): the table is returned, or the call panics.
\* The call reads and writes nothing but its own new table, so a run makes
\* one table and goes on with that table and its copies.
MakeHashMap ==
    /\ status = "running"
    /\ Free = Handles
    /\ LET r == make_hash_map(input.args)
       IN IF r.err = "none"
          THEN /\ heap' = [heap EXCEPT ![NextFree] = r.table]
               /\ last' = Call("make_hash_map", 0, Qnil, Qnil, Qnil, NextFree, "none")
               /\ status' = status
          ELSE /\ heap' = heap
               /\ last' = Call("make_hash_map", 0, Qnil, Qnil, Qnil, 0, r.err)
               /\ status' = "panic"
    /\ marked' = NoMarks
    /\ UNCHANGED <<dumped, input, next_weak, weak_hash_tables>>

MapPut(h, k, v) ==
    /\ status = "running"
    /\ IsHeapTable(h)
    /\ heap' = [heap EXCEPT ![h] = map_put(heap[h], k, v)]
    /\ last' = Call("map_put", h, k, v, v, 0, "none")
    /\ marked' = NoMarks
    /\ UNCHANGED <<status, dumped, input, next_weak, weak_hash_tables>>

MapGet(h, k) ==
    /\ status = "running"
    /\ IsTable(h)
    /\ last' = Call("map_get", h, k, Qnil, map_get(heap[h], k), 0, "none")
    /\ marked' = NoMarks
    /\ UNCHANGED <<heap, status, dumped, input, next_weak, weak_hash_tables>>

MapRm(h, k) ==
    /\ status = "running"
    /\ IsHeapTable(h)
    /\ heap' = [heap EXCEPT ![h] = map_rm(heap[h], k)]
    /\ last' = Call("map_rm", h, k, Qnil, Qnil, h, "none")
    /\ marked' = NoMarks
    /\ UNCHANGED <<status, dumped, input, next_weak, weak_hash_tables>>

MapClear(h) ==
    /\ status = "running"
    /\ IsHeapTable(h)
    /\ heap' = [heap EXCEPT ![h] = map_clear(heap[h])]
    /\ last' = Call("map_clear", h, Qnil, Qnil, Qnil, h, "none")
    /\ marked' = NoMarks
    /\ UNCHANGED <<status, dumped, input, next_weak, weak_hash_tables>>

MapCount(h) ==
    /\ status = "running"
    /\ IsTable(h)
    /\ last' = Call("map_count", h, Qnil, Qnil, map_count(heap[h]), 0, "none")
    /\ marked' = NoMarks
    /\ UNCHANGED <<heap, status, dumped, input, next_weak, weak_hash_tables>>

MapTest(h) ==
    /\ status = "running"
    /\ IsTable(h)
    /\ last' = Call("map_test", h, Qnil, Qnil, map_test(heap[h]), 0, "none")
    /\ marked' = NoMarks
    /\ UNCHANGED <<heap, status, dumped, input, next_weak, weak_hash_tables>>

\* the two rehash accessors ignore their argument
MapRehashSize ==
    /\ status = "running"
    /\ last' = Call("map_rehash_size", 0, Qnil, Qnil, map_rehash_size(Qnil), 0, "none")
    /\ marked' = NoMarks
    /\ UNCHANGED <<heap, status, dumped, input, next_weak, weak_hash_tables>>

MapRehashThreshold ==
    /\ status = "running"
    /\ last' = Call("map_rehash_threshold", 0, Qnil, Qnil,
                    map_rehash_threshold(Qnil), 0, "none")
    /\ marked' = NoMarks
    /\ UNCHANGED <<heap, status, dumped, input, next_weak, weak_hash_tables>>

MapCopy(h) ==
    /\ status = "running"
    /\ IsTable(h)
    /\ Free # {}
    /\ heap' = [heap EXCEPT ![NextFree] = map_copy(h)]
    /\ last' = Call("map_copy", h, Qnil, Qnil, Qnil, NextFree, "none")
    /\ marked' = NoMarks
    /\ UNCHANGED <<status, dumped, input, next_weak, weak_hash_tables>>

MarkHashtable(h) ==
    /\ status = "running"
    /\ IsTable(h)
    /\ marked' = mark_hashtable(heap[h], h)
    /\ last' = Call("mark_hashtable", h, Qnil, Qnil, Qnil, 0, "none")
    /\ UNCHANGED <<heap, status, dumped, input, next_weak, weak_hash_tables>>

\* the dump pure-copies a table once
PureCopyHashtable(h) ==
    /\ status = "running"
    /\ IsTable(h)
    /\ h \notin dumped
    /\ Free # {}
    /\ \E t \in pure_copy_hashtable(heap[h]) :
          heap' = [heap EXCEPT ![NextFree] = t]
    /\ last' = Call("pure_copy_hashtable", h, Qnil, Qnil, Qnil, NextFree, "none")
    /\ marked' = NoMarks
    /\ dumped' = dumped \cup {h}
    /\ UNCHANGED <<status, input, next_weak, weak_hash_tables>>

\* A call that takes its map for a LispHashTable (map_put, map_get, map_rm,
\* map_clear, map_count, map_copy, map_test, mark_hashtable,
\* pure_copy_hashtable) and is given the handle map_copy returned reads or
\* writes past the one word that handle points to: what the process does
\* from there on is undefined, and the model follows it no further.
WildAccess(h) ==
    /\ status = "running"
    /\ h \in Handles /\ heap[h].kind = "ptrbox"
    /\ status' = "undefined"
    /\ last' = Call("wild access", h, Qnil, Qnil, Qnil, 0, "undefined behaviour")
    /\ marked' = NoMarks
    /\ UNCHANGED <<heap, dumped, input, next_weak, weak_hash_tables>>

\* Fmake_hash_table of the C runtime: a weak table is put at the head of
\* the chain
MakeHashTable(weak, keys) ==
    /\ status = "running"
    /\ Free # {}
    /\ heap' = [heap EXCEPT ![NextFree] = make_hash_table(weak, keys)]
    /\ IF is_not_nil(weak)
       THEN /\ next_weak' = [next_weak EXCEPT ![NextFree] = weak_hash_tables]
            /\ weak_hash_tables' = NextFree
       ELSE UNCHANGED <<next_weak, weak_hash_tables>>
    /\ last' = Call("make_hash_table", 0, weak, Qnil, Qnil, NextFree, "none")
    /\ marked' = NoMarks
    /\ UNCHANGED <<status, dumped, input>>

CopyHashTable(h) ==
    /\ status = "running"
    /\ h \in Handles /\ heap[h].kind = "legacy"
    /\ Free # {}
    /\ LET r == copy_hash_table(heap, next_weak, h, NextFree)
       IN /\ heap' = r.heap
          /\ next_weak' = r.next_weak
    /\ last' = Call("copy_hash_table", h, Qnil, Qnil, Qnil, NextFree, "none")
    /\ marked' = NoMarks
    /\ UNCHANGED <<status, dumped, input, weak_hash_tables>>

\* One collection while the mutator is paused.  r1 and r2 are the objects
\* (nil: none) that something other than a table keeps alive; the mutator
\* holds every table.  Pure space is not traced.
GarbageCollect(r1, r2) ==
    /\ status = "running"
    /\ Free # Handles
    /\ \A h \in Handles : heap[h].kind # "ptrbox"
    /\ LET ms == {mark_hashtable(heap[h], h) : h \in {g \in Handles : heap[g].kind = "table"}}
                 \cup {mark_hash_table(heap[h], h) :
                          h \in {g \in Handles : heap[g].kind = "legacy"}}
           objects == ({r1, r2} \ {Qnil}) \cup UNION {m.objects : m \in ms}
           chain == WeakChain(weak_hash_tables, next_weak, MaxTables)
       IN /\ heap' = [h \in Handles |->
                        IF h \in chain THEN sweep_weak_table(heap[h], objects)
                        ELSE heap[h]]
          /\ marked' = Marks(UNION {m.tables : m \in ms}, objects)
    /\ last' = Call("garbage_collect", 0, r1, r2, Qnil, 0, "none")
    /\ UNCHANGED <<status, dumped, input, next_weak, weak_hash_tables>>

\* the sets of up to two live objects, each once
Roots ==
    {r \in (input.keys \cup {Qnil}) \X (input.keys \cup {Qnil}) :
        r[2] = Qnil \/ (r[1] # Qnil /\ r[1].id < r[2].id)}

Next ==
    \/ MakeHashMap
    \/ \E h \in Handles, k \in input.keys, v \in Values : MapPut(h, k, v)
    \/ \E h \in Handles, k \in input.keys : MapGet(h, k)
    \/ \E h \in Handles, k \in input.keys : MapRm(h, k)
    \/ \E h \in Handles : MapClear(h)
    \/ \E h \in Handles : MapCount(h)
    \/ \E h \in Handles : MapTest(h)
    \/ MapRehashSize
    \/ MapRehashThreshold
    \/ \E h \in Handles : MapCopy(h)
    \/ \E h \in Handles : MarkHashtable(h)
    \/ \E h \in Handles : PureCopyHashtable(h)
    \/ \E h \in Handles : WildAccess(h)
    \/ \E r \in Roots : GarbageCollect(r[1], r[2])

Spec == Init /\ [][Next]_vars

\* make_hash_map alone, over every option list
NextConfigure == MakeHashMap

SpecConfigure == InitConfigure /\ [][NextConfigure]_vars

\* the making and the copying of tables of both kinds, and the collector
Weaknesses == {Qnil, Qkey, Qvalue, Qkey_and_value}

NextChain ==
    \/ MakeHashMap
    \/ \E weak \in Weaknesses, keys \in SUBSET input.keys : MakeHashTable(weak, keys)
    \/ \E h \in Handles : CopyHashTable(h)
    \/ \E h \in Handles : MapCopy(h)
    \/ \E r \in Roots : GarbageCollect(r[1], r[2])

SpecChain == Init /\ [][NextChain]_vars

(***************************************************************************)
(* What the claims speak of: equality of two keys under a strategy, a hash *)
(* that agrees with it, and a key that is not in a table.                  *)
(***************************************************************************)
SameContent(a, b) == [a EXCEPT !.id = 0, !.pure = FALSE] = [b EXCEPT !.id = 0, !.pure = FALSE]

\* a and b are the same key under strategy f
StrategyEq(f, a, b) ==
    CASE f.tag = "Eq" -> a = b
      [] f.tag = "Eql" -> a = b \/ (a.type = "float" /\ SameContent(a, b))
      [] f.tag = "Equal" -> SameContent(a, b)
      [] OTHER -> Call2(f.cmp, a, b) # Qnil

KeyObjects == UNION KeySets \cup {purecopy(o) : o \in UNION KeySets}

\* keys that are equal under f hash alike under f
Consistent(f) ==
    \A a \in KeyObjects, b \in KeyObjects :
        StrategyEq(f, a, b)
        => HashableHash(with_hashfunc_and_object(a, f))
           = HashableHash(with_hashfunc_and_object(b, f))

\* the strategies of this model, and those among them whose hash agrees
\* with their equality
Strategies ==
    LET user == {UserFunc(n, car(HashTableTestProp(n)), car(cdr(HashTableTestProp(n))))
                 : n \in {my_equal, loose, Sym("three")}}
    IN {HashFunction_Eq, HashFunction_Eql, HashFunction_Equal}
       \cup user
       \cup {UserFunc(purecopy(f.name), purecopy(f.cmp), purecopy(f.hash)) : f \in user}

ConsistentStrategies == {f \in Strategies : Consistent(f)}

\* no entry of tbl has a key equal to k under the table's strategy
Absent(tbl, k) == \A e \in tbl.map : ~StrategyEq(tbl.func, k, e.key.object)

Count(tbl) == map_count(tbl).num

(***************************************************************************)
(* C1: put then get.  map_put returns the value it was given, and in a     *)
(* table whose hash agrees with its equality a get of any key equal to the *)
(* put key then returns that value; it goes on returning it over every     *)
(* call that is not a put or remove of an equal key or a clear of that     *)
(* table.                                                                  *)
(***************************************************************************)
C1_PutThenGet ==
    [][\A h \in Handles :
          IsTable(h) =>
            /\ (last'.op = "map_put" /\ last'.h = h) => last'.ret = last'.v
            /\ heap[h].func \in ConsistentStrategies =>
                 \A a \in input.keys :
                    LET samekey == last'.h = h /\ StrategyEq(heap[h].func, last'.k, a)
                    IN IF last'.op = "map_put" /\ samekey
                       THEN map_get(heap'[h], a) = last'.v
                       ELSE IF \/ last'.op = "map_rm" /\ samekey
                               \/ last'.op = "map_clear" /\ last'.h = h
                       THEN TRUE
                       ELSE map_get(heap'[h], a) = map_get(heap[h], a)]_vars

\* a put has just stored a value in a table with a user-defined test, under
\* a key whose equal twin was already there
C1_Witness ==
    /\ last.op = "map_put"
    /\ IsTable(last.h)
    /\ heap[last.h].func.tag = "UserFunc"
    /\ heap[last.h].func \in ConsistentStrategies
    /\ \E e \in heap[last.h].map :
          e.key.object # last.k /\ e.value.object = last.v
    /\ map_get(heap[last.h], last.k) = last.v

(***************************************************************************)
(* C2: count.  A new table counts 0; a put of a key that is equal to no    *)
(* key of the table raises the count by one; a remove of a key that is in  *)
(* the table lowers it by one; a clear sets it to 0.                       *)
(***************************************************************************)
C2_Count ==
    [][/\ (last'.op = "make_hash_map" /\ last'.err = "none")
            => Count(heap'[last'.rh]) = 0
       /\ \A h \in Handles :
            (IsTable(h) /\ last'.h = h) =>
              /\ (last'.op = "map_put" /\ Absent(heap[h], last'.k))
                    => Count(heap'[h]) = Count(heap[h]) + 1
              /\ (last'.op = "map_rm"
                  /\ \E e \in heap[h].map :
                        \/ e.key.object = last'.k
                        \/ /\ heap[h].func \in ConsistentStrategies
                           /\ StrategyEq(heap[h].func, last'.k, e.key.object))
                    => Count(heap'[h]) = Count(heap[h]) - 1
              /\ last'.op = "map_clear" => Count(heap'[h]) = 0]_vars

\* two puts of different keys have brought a table to count 2
C2_Witness ==
    /\ last.op = "map_put"
    /\ IsTable(last.h)
    /\ Count(heap[last.h]) = 2
    /\ \A e1 \in heap[last.h].map, e2 \in heap[last.h].map :
          e1 # e2 => ~StrategyEq(heap[last.h].func, e1.key.object, e2.key.object)

(***************************************************************************)
(* C3: in a table with test equal, a put under a key that is another       *)
(* object than a stored key but equal to it adds no entry: the count       *)
(* stays, and a get of either key returns the new value; a remove of       *)
(* either key then leaves a get of both nil and the count one lower.       *)
(***************************************************************************)
C3_EqualKeysCollapse ==
    [][\A h \in Handles :
          (IsTable(h) /\ heap[h].func.tag = "Equal" /\ last'.h = h) =>
            \A e \in heap[h].map :
               (e.key.object # last'.k /\ SameContent(e.key.object, last'.k)) =>
                 /\ last'.op = "map_put" =>
                      /\ Count(heap'[h]) = Count(heap[h])
                      /\ map_get(heap'[h], last'.k) = last'.v
                      /\ map_get(heap'[h], e.key.object) = last'.v
                 /\ last'.op = "map_rm" =>
                      /\ Count(heap'[h]) = Count(heap[h]) - 1
                      /\ map_get(heap'[h], last'.k) = Qnil
                      /\ map_get(heap'[h], e.key.object) = Qnil]_vars

\* a put under the second of two equal strings has replaced the value the
\* first was stored with
C3_Witness ==
    /\ last.op = "map_put"
    /\ IsTable(last.h)
    /\ heap[last.h].func.tag = "Equal"
    /\ Count(heap[last.h]) = 1
    /\ \E e \in heap[last.h].map :
          /\ e.key.object # last.k
          /\ SameContent(e.key.object, last.k)
          /\ e.value.object = last.v

(***************************************************************************)
(* C4: mark_hashtable marks every key and value of a table that is not     *)
(* weak, and no key or value of a table that is weak.                      *)
(***************************************************************************)
Contents(tbl) ==
    {e.key.object : e \in tbl.map} \cup {e.value.object : e \in tbl.map}

C4_MarkByWeakness ==
    last.op = "mark_hashtable" =>
        IF heap[last.h].weak = Qnil
        THEN Contents(heap[last.h]) \subseteq marked.objects
        ELSE Contents(heap[last.h]) \cap marked.objects = {}

(***************************************************************************)
(* C5: the table pure_copy_hashtable returns is pure and not weak,         *)
(* whatever the source is.                                                 *)
(***************************************************************************)
C5_PureCopyIsPure ==
    last.op = "pure_copy_hashtable" =>
        /\ heap[last.rh].is_pure = TRUE
        /\ heap[last.rh].weak = Qnil

(***************************************************************************)
(* C6: map_copy returns a new table with the count, the test and the       *)
(* weakness of its source and a store of its own.                          *)
(***************************************************************************)
C6_CopyIsATable ==
    last.op = "map_copy" =>
        /\ last.rh # last.h
        /\ heap[last.rh].kind = "table"
        /\ map_count(heap[last.rh]) = map_count(heap[last.h])
        /\ map_test(heap[last.rh]) = map_test(heap[last.h])
        /\ heap[last.rh].weak = heap[last.h].weak
        /\ heap[last.rh].map = heap[last.h].map

(***************************************************************************)
(* C7: a key that is not there.  map_get changes no table and returns nil  *)
(* for a key that is equal to no key of the table; map_rm of such a key    *)
(* changes no table; neither call fails.                                   *)
(***************************************************************************)
C7_AbsentKey ==
    [][\A h \in Handles :
          (IsTable(h) /\ last'.h = h) =>
            /\ last'.op = "map_get" =>
                 /\ heap' = heap
                 /\ status' = "running" /\ last'.err = "none"
                 /\ Absent(heap[h], last'.k) => last'.ret = Qnil
            /\ (last'.op = "map_rm" /\ Absent(heap[h], last'.k)) =>
                 /\ heap' = heap
                 /\ status' = "running" /\ last'.err = "none"]_vars

\* a get of a key that is not in a table that has an entry returned nil
C7_Witness ==
    /\ last.op = "map_get"
    /\ IsTable(last.h)
    /\ heap[last.h].map # {}
    /\ Absent(heap[last.h], last.k)
    /\ last.ret = Qnil

(***************************************************************************)
(* What the claims about make_hash_map speak of: the option pairs of an    *)
(* argument list.                                                          *)
(***************************************************************************)
\* the positions of the option keys that have a value
PairKeys(args) == {i \in 1..Len(args) : i % 2 = 1 /\ i + 1 <= Len(args)}

\* the values given to the option `key`
OptionValues(args, key) == {args[i + 1] : i \in {j \in PairKeys(args) : args[j] = key}}

\* the last value given to the option `key`
LastValue(args, key) ==
    LET at == {j \in PairKeys(args) : args[j] = key}
    IN args[(CHOOSE j \in at : \A i \in at : i <= j) + 1]

RECURSIVE WithoutSize(_)
WithoutSize(args) ==
    IF Len(args) < 2 THEN args
    ELSE IF args[1] = QCsize THEN WithoutSize(SubSeq(args, 3, Len(args)))
    ELSE <<args[1], args[2]>> \o WithoutSize(SubSeq(args, 3, Len(args)))

IsBuiltinTest(v) == v \in {Qeq, Qeql, Qequal}

(***************************************************************************)
(* C8: make_hash_map given an option list of odd length fails with the     *)
(* error for a malformed argument list ("Inproper args list"), whatever    *)
(* the options are, and returns no table.                                  *)
(***************************************************************************)
C8_OddLengthIsMalformed ==
    (last.op = "make_hash_map" /\ Len(input.args) % 2 = 1) =>
        /\ last.err = "Inproper args list"
        /\ last.rh = 0

(***************************************************************************)
(* C9: a test name that is none of eq, eql, equal is looked up: when its   *)
(* definition is not a pair of a comparator and a hash function the call   *)
(* fails and no strategy is ever UserDefined under that name; when it is   *)
(* such a pair the strategy becomes UserDefined(name, first, second).      *)
(* A pair is a list of exactly two elements.                               *)
(***************************************************************************)
IsExactPair(p) == ~p.atom /\ Len(p.elems) = 2

C9_CustomTestExactPair ==
    last.op = "make_hash_map" =>
        LET r == make_hash_map(input.args)
            tests == OptionValues(input.args, QCtest)
        IN /\ (\E v \in tests : ~IsBuiltinTest(v) /\ ~IsExactPair(HashTableTestProp(v)))
                => (last.err # "none" /\ last.rh = 0)
           /\ r.table.func.tag = "UserFunc"
                => /\ IsExactPair(HashTableTestProp(r.table.func.name))
                   /\ r.table.func.cmp = HashTableTestProp(r.table.func.name).elems[1]
                   /\ r.table.func.hash = HashTableTestProp(r.table.func.name).elems[2]
           /\ (last.err = "none" /\ tests # {}
               /\ ~IsBuiltinTest(LastValue(input.args, QCtest)))
                => /\ heap[last.rh].func.tag = "UserFunc"
                   /\ heap[last.rh].func.name = LastValue(input.args, QCtest)

\* C9 as the code has it: the same with a definition taken for well formed
\* when it is a list of at least two elements, the first the comparator and
\* the second the hash function.
StartsWithPair(p) == ~p.atom /\ Len(p.elems) >= 2

C9_CustomTestLeadingPair ==
    last.op = "make_hash_map" =>
        LET r == make_hash_map(input.args)
            tests == OptionValues(input.args, QCtest)
        IN /\ (\E v \in tests : ~IsBuiltinTest(v) /\ ~StartsWithPair(HashTableTestProp(v)))
                => (last.err # "none" /\ last.rh = 0)
           /\ r.table.func.tag = "UserFunc"
                => /\ StartsWithPair(HashTableTestProp(r.table.func.name))
                   /\ r.table.func.cmp = HashTableTestProp(r.table.func.name).elems[1]
                   /\ r.table.func.hash = HashTableTestProp(r.table.func.name).elems[2]
           /\ (last.err = "none" /\ tests # {}
               /\ ~IsBuiltinTest(LastValue(input.args, QCtest)))
                => /\ heap[last.rh].func.tag = "UserFunc"
                   /\ heap[last.rh].func.name = LastValue(input.args, QCtest)

\* a table has been made whose last :test option names a user-defined test
C9_Witness ==
    /\ last.op = "make_hash_map"
    /\ last.err = "none"
    /\ input.args = <<QCtest, Qequal, QCtest, my_equal>>
    /\ heap[last.rh].func = UserFunc(my_equal, cmp_equal, hash_equal)

(***************************************************************************)
(* C10: a table made with no options is empty, compares with eq, and is    *)
(* neither weak nor pure; a :size option reserves room and changes nothing *)
(* else: the table is the one the list without its :size pairs makes.      *)
(***************************************************************************)
C10_Defaults ==
    (last.op = "make_hash_map" /\ last.err = "none") =>
        LET t == heap[last.rh]
            r == make_hash_map(WithoutSize(input.args))
        IN /\ Count(t) = 0
           /\ WithoutSize(input.args) = <<>> =>
                /\ t.func = HashFunction_Eq
                /\ map_test(t) = Qeq
                /\ t.weak = Qnil
                /\ t.is_pure = FALSE
           /\ \A v \in OptionValues(input.args, QCsize) : t.cap >= v.num
           /\ r.err = "none"
           /\ [t EXCEPT !.cap = 0] = [r.table EXCEPT !.cap = 0]

\* a table has been made with a :size option alone
C10_Witness ==
    /\ last.op = "make_hash_map"
    /\ last.err = "none"
    /\ input.args = <<QCsize, Fixnum(100)>>
    /\ heap[last.rh].cap = 100
    /\ heap[last.rh].func = HashFunction_Eq

(***************************************************************************)
(* C11: map_put, map_get, map_rm, map_clear and map_count leave the func,  *)
(* the weak and the is_pure of every table as they were, so that a table   *)
(* keeps the three that make_hash_map gave it; map_clear empties the map.  *)
(***************************************************************************)
Metadata(tbl) == <<tbl.func, tbl.weak, tbl.is_pure>>

C11_MetadataFixed ==
    [][/\ \A h \in Handles :
            (IsTable(h) /\ last'.op \in {"map_put", "map_get", "map_rm",
                                        "map_clear", "map_count"}) =>
              /\ Metadata(heap'[h]) = Metadata(heap[h])
              /\ (last'.op = "map_clear" /\ last'.h = h) => heap'[h].map = {}
       /\ \A h \in Handles :
            heap'[h].kind = "table" =>
              Metadata(heap'[h]) = Metadata(make_hash_map(input.args).table)]_vars

\* a weak table with a user-defined test that had an entry has just been
\* cleared
C11_Witness ==
    /\ last.op = "map_clear"
    /\ heap[last.h].func.tag = "UserFunc"
    /\ heap[last.h].weak = Qkey_and_value
    /\ heap[last.h].map = {}
    /\ \E k \in input.keys : map_get(heap[last.h], k) = Qnil

(***************************************************************************)
(* C12: mark_hashtable marks the table's own vector and, when the test is  *)
(* user-defined, its name, its comparator and its hash function, whether   *)
(* the table is weak or not and whether it has entries or not.             *)
(***************************************************************************)
C12_MarkFraming ==
    last.op = "mark_hashtable" =>
        /\ last.h \in marked.tables
        /\ heap[last.h].func.tag = "UserFunc" =>
             {heap[last.h].func.name, heap[last.h].func.cmp, heap[last.h].func.hash}
                \subseteq marked.objects

\* a table that is not weak, has a user-defined test and no entry has just
\* been marked
C12_Witness ==
    /\ last.op = "mark_hashtable"
    /\ heap[last.h].func = UserFunc(my_equal, cmp_equal, hash_equal)
    /\ heap[last.h].weak = Qnil
    /\ heap[last.h].map = {}
    /\ hash_equal \in marked.objects

(***************************************************************************)
(* C13: after a collection, a table that is weak by key holds exactly the  *)
(* entries whose key something other than the table keeps alive, each with *)
(* the value it had.                                                       *)
(***************************************************************************)
\* what keeps an object alive apart from table h: the roots of the
\* collection and the tables that are not weak
AliveApartFrom(h, r1, r2) ==
    {r1, r2}
    \cup UNION {Contents(heap[g]) :
                  g \in {f \in Handles \ {h} : /\ heap[f].kind \in {"table", "legacy"}
                                               /\ heap[f].weak = Qnil}}

C13_KeyWeakSweep ==
    [][last'.op = "garbage_collect" =>
          \A h \in Handles :
             (heap[h].kind \in {"table", "legacy"} /\ heap[h].weak = Qkey) =>
                heap'[h].map = {e \in heap[h].map :
                                  e.key.object \in AliveApartFrom(h, last'.k, last'.v)}]_vars

(***************************************************************************)
(* C14: a copy of a weak table is put into the chain of weak tables right  *)
(* after its source: the source's next_weak is the copy and the copy's     *)
(* next_weak is what the source's was, so no table leaves the chain; a     *)
(* copy of a table that is not weak leaves the chain as it was.            *)
(***************************************************************************)
Chain == WeakChain(weak_hash_tables, next_weak, MaxTables)

C14_CopyLinkedAfterSource ==
    [][last'.op \in {"copy_hash_table", "map_copy"} =>
          IF is_not_nil(heap[last'.h].weak)
          THEN /\ next_weak'[last'.h] = last'.rh
               /\ next_weak'[last'.rh] = next_weak[last'.h]
               /\ Chain \subseteq Chain'
               /\ last'.rh \in Chain'
          ELSE /\ Chain' = Chain
               /\ \A h \in Chain : next_weak'[h] = next_weak[h]]_vars

(***************************************************************************)
(* C15: a table that is made weak is put at the head of the chain of weak  *)
(* tables, so that whatever tables are made and copied, every table that   *)
(* is weak is in the chain.                                                *)
(***************************************************************************)
C15_WeakTablesChained ==
    [][/\ (/\ last'.op \in {"make_hash_map", "make_hash_table"}
           /\ last'.err = "none"
           /\ is_not_nil(heap'[last'.rh].weak))
            => /\ weak_hash_tables' = last'.rh
               /\ next_weak'[last'.rh] = weak_hash_tables
       /\ \A h \in Handles :
            (heap'[h].kind \in {"table", "legacy"} /\ is_not_nil(heap'[h].weak))
                => h \in Chain']_vars

(***************************************************************************)
(* C16: pure-copying the table pure_copy_hashtable returned gives a table  *)
(* with the same func, is_pure, weak, count and entries, pure-copying a    *)
(* pure object being the identity.                                         *)
(***************************************************************************)
C16_PureCopyIdempotent ==
    last.op = "pure_copy_hashtable" =>
        \A again \in pure_copy_hashtable(heap[last.rh]) :
            /\ Metadata(again) = Metadata(heap[last.rh])
            /\ map_count(again) = map_count(heap[last.rh])
            /\ again.map = heap[last.rh].map

\* a weak table with a user-defined test and two entries has just been
\* pure-copied
C16_Witness ==
    /\ last.op = "pure_copy_hashtable"
    /\ heap[last.h].weak # Qnil
    /\ heap[last.h].func.tag = "UserFunc"
    /\ Cardinality(heap[last.rh].map) = 2
    /\ heap[last.rh].kind = "pure"

(***************************************************************************)
(* C17: map_test returns the test the table was made with: eq when no      *)
(* :test option was given, else the value of the last :test option, which  *)
(* is eq, eql, equal or the name of a user-defined test, never that test's *)
(* comparator or hash function.                                            *)
(***************************************************************************)
TestAsPassed ==
    IF OptionValues(input.args, QCtest) = {} THEN Qeq ELSE LastValue(input.args, QCtest)

C17_TestAsPassed ==
    last.op = "map_test" =>
        /\ last.ret = TestAsPassed
        /\ heap[last.h].func.tag = "UserFunc" =>
             last.ret \notin {heap[last.h].func.cmp, heap[last.h].func.hash}

\* map_test has just returned the name of a user-defined test
C17_Witness ==
    /\ last.op = "map_test"
    /\ IsTable(last.h)
    /\ heap[last.h].func = UserFunc(my_equal, cmp_equal, hash_equal)
    /\ last.ret = my_equal

(***************************************************************************)
(* C18: map_rehash_size returns the float 0.5 and map_rehash_threshold the *)
(* float 0.8125, whatever tables there are and whatever is in them, and    *)
(* neither changes a table.                                                *)
(***************************************************************************)
IsFloatOf(o, n, d) == o.type = "float" /\ o.num * d = n * o.den

C18_RehashConstants ==
    [][/\ last'.op = "map_rehash_size" =>
            (IsFloatOf(last'.ret, 1, 2) /\ heap' = heap)
       /\ last'.op = "map_rehash_threshold" =>
            (IsFloatOf(last'.ret, 8125, 10000) /\ heap' = heap)]_vars

\* map_rehash_size has just returned 0.5 while a weak table with a
\* user-defined test holds an entry
C18_Witness ==
    /\ last.op = "map_rehash_size"
    /\ IsFloatOf(last.ret, 1, 2)
    /\ \E h \in Handles :
          /\ heap[h].kind = "table"
          /\ heap[h].func.tag = "UserFunc"
          /\ heap[h].weak # Qnil
          /\ heap[h].map # {}

(***************************************************************************)
(* C19: no table ever holds two entries whose keys are equal under the     *)
(* table's test, whatever puts, removes, clears, copies and pure copies    *)
(* were made.                                                              *)
(***************************************************************************)
UniqueKeys(tbl) ==
    \A e1 \in tbl.map : \A e2 \in tbl.map :
        e1 # e2 => ~StrategyEq(tbl.func, e1.key.object, e2.key.object)

C19_KeysUnique ==
    \A h \in Handles : IsTable(h) => UniqueKeys(heap[h])

\* C19 as the code has it: the same for the tables whose test is eq, eql or
\* equal, or a user-defined test whose hash function gives equal hashes to
\* the keys its comparator takes for equal.
C19_KeysUniqueWhenConsistent ==
    \A h \in Handles :
        (IsTable(h) /\ heap[h].func \in ConsistentStrategies) => UniqueKeys(heap[h])

\* a put under a key that is equal to the stored key, and is another
\* object, has just left a table whose test is equal with one entry
C19_Witness ==
    /\ last.op = "map_put"
    /\ heap[last.h].func = HashFunction_Equal
    /\ Cardinality(heap[last.h].map) = 1
    /\ \E e \in heap[last.h].map :
          e.key.object # last.k /\ SameContent(e.key.object, last.k)

(***************************************************************************)
(* C20: the weak of a table that make_hash_map returns is nil, key, value  *)
(* or key-and-value: a :weakness of t gives key-and-value, a :weakness of  *)
(* nil gives nil, and no value of the option gives anything else.          *)
(***************************************************************************)
C20_WeaknessInRange ==
    (last.op = "make_hash_map" /\ last.err = "none") =>
        /\ heap[last.rh].weak \in {Qnil, Qkey, Qvalue, Qkey_and_value}
        /\ OptionValues(input.args, QCweakness) # {} =>
             /\ LastValue(input.args, QCweakness) = Qt
                  => heap[last.rh].weak = Qkey_and_value
             /\ LastValue(input.args, QCweakness) = Qnil
                  => heap[last.rh].weak = Qnil

(***************************************************************************)
(* C21: a table is pure only if it was made with a :purecopy option that   *)
(* is not nil, or is what pure_copy_hashtable returned: a table made with  *)
(* :purecopy nil, or with no :purecopy option, is not pure.                *)
(***************************************************************************)
C21_PureOnlyWhenAsked ==
    \A h \in Handles :
        (IsTable(h) /\ heap[h].is_pure) =>
            \/ heap[h].kind = "pure"
            \/ \E v \in OptionValues(input.args, QCpurecopy) : v # Qnil

(***************************************************************************)
(* C22: in every table, the copies and the pure twins included, every      *)
(* wrapped key and every wrapped value carries the func of the table: in   *)
(* the pure twin of a table with a user-defined test, the pure-copied      *)
(* name, comparator and hash function of the twin, not those of the        *)
(* source.                                                                 *)
(***************************************************************************)
C22_EntriesCarryTableFunc ==
    \A h \in Handles :
        IsTable(h) =>
            \A e \in heap[h].map :
                /\ e.key.func = heap[h].func
                /\ e.value.func = heap[h].func

====
